---- MODULE Spec2Model ----
(***************************************************************************)
(* Model of src/parser.c, the log parsing and aggregation core of          *)
(* GoAccess: the format-directed line parser (parse_format,                *)
(* parse_specifier, parse_string, parse_req), the record classifier and    *)
(* dispatcher (process_log and its helpers) and the driver (read_log,      *)
(* pre_process_log, test_format).                                          *)
(*                                                                         *)
(* C strings are sequences of one-byte strings.  The line buffer of        *)
(* read_log is a sequence in which the terminator is the byte NUL; the     *)
(* line cursor and the format cursor are 1-based offsets.                  *)
(***************************************************************************)
EXTENDS Integers, Sequences, FiniteSets, TLC

(***************************************************************************)
(* Bytes and C-library helpers                                             *)
(***************************************************************************)

\* the string terminator '\0'
NUL ==
  "NUL"

\* a NULL char pointer (no C string contains NUL, so this is no string)
NULL ==
  << NUL >>

\* a decoded byte that is outside the bytes the model's inputs use
OPAQUE ==
  "OPAQUE"

\* *(s + i - 1) for a NUL-terminated s
CharAt(s, i) ==
  IF i >= 1 /\ i <= Len(s) THEN s[i] ELSE NUL

isspace(c) ==
  c \in {" ", "\t", "\n", "\r", "\f"}

isdigit(c) ==
  c \in {"0", "1", "2", "3", "4", "5", "6", "7", "8", "9"}

isxdigit(c) ==
  isdigit(c) \/ c \in {"A", "B", "C", "D", "E", "F", "a", "b", "c", "d", "e", "f"}

DigitVal(c) ==
  CASE c = "0" -> 0 [] c = "1" -> 1 [] c = "2" -> 2 [] c = "3" -> 3
    [] c = "4" -> 4 [] c = "5" -> 5 [] c = "6" -> 6 [] c = "7" -> 7
    [] c = "8" -> 8 [] c = "9" -> 9

Lower ==
  << "a", "b", "c", "d", "e", "f", "g", "h", "i", "j", "k", "l", "m",
     "n", "o", "p", "q", "r", "s", "t", "u", "v", "w", "x", "y", "z" >>

Upper ==
  << "A", "B", "C", "D", "E", "F", "G", "H", "I", "J", "K", "L", "M",
     "N", "O", "P", "Q", "R", "S", "T", "U", "V", "W", "X", "Y", "Z" >>

toupper(c) ==
  IF \E k \in 1..26 : Lower[k] = c
    THEN Upper[CHOOSE k \in 1..26 : Lower[k] = c]
    ELSE c

\* the C string held in s: the bytes before the first NUL
RECURSIVE CStr(_)
CStr(s) ==
  IF s = << >> \/ Head(s) = NUL THEN << >> ELSE << Head(s) >> \o CStr(Tail(s))

\* the C string that starts at offset i of buffer b
StrFrom(b, i) ==
  IF i > Len(b) THEN << >> ELSE CStr(SubSeq(b, i, Len(b)))

\* strlen of the string at offset i of b
StrLenAt(b, i) ==
  Len(StrFrom(b, i))

\* memcmp (s + i - 1, w, strlen (w)) == 0
HasPrefixAt(s, i, w) ==
  \A k \in 1..Len(w) : CharAt(s, i + k - 1) = w[k]

\* the least member of a set of offsets, 0 (NULL) for the empty set
Least(hits) ==
  IF hits = {} THEN 0 ELSE CHOOSE i \in hits : \A j \in hits : i <= j

\* strstr (s, w): the least offset of w in s, 0 for NULL
StrStr(s, w) ==
  Least({i \in 1..(Len(s) + 1) : HasPrefixAt(s, i, w)})

\* strchr (s + from - 1, c): the least offset >= from of byte c, 0 for NULL
StrChrFrom(s, from, c) ==
  Least({i \in from..Len(s) : s[i] = c})

strtoupper(s) ==
  [k \in 1..Len(s) |-> toupper(s[k])]

RECURSIVE ltrim(_)
ltrim(s) ==
  IF s # << >> /\ isspace(Head(s)) THEN ltrim(Tail(s)) ELSE s

RECURSIVE rtrim(_)
rtrim(s) ==
  IF s # << >> /\ isspace(s[Len(s)]) THEN rtrim(SubSeq(s, 1, Len(s) - 1)) ELSE s

trim_str(s) ==
  ltrim(rtrim(s))

strip_newlines(s) ==
  SelectSeq(s, LAMBDA c : c \notin {"\n", "\r"})

char_replace(s, from, to) ==
  [k \in 1..Len(s) |-> IF s[k] = from THEN to ELSE s[k]]

deblank(s) ==
  SelectSeq(s, LAMBDA c : c # " ")

count_matches(s, c) ==
  Cardinality({k \in 1..Len(s) : s[k] = c})

(***************************************************************************)
(* URL decoding                                                            *)
(***************************************************************************)

BASE16_TO_10(x) ==
  IF isdigit(x)
    THEN DigitVal(x)
    ELSE 9 + (CHOOSE k \in 1..6 : Upper[k] = toupper(x))

\* the byte with the given code, for the codes the model's inputs decode to
ByteOf(code) ==
  CASE code = 0 -> NUL
    [] code = 10 -> "\n"
    [] code = 32 -> " "
    [] code = 37 -> "%"
    [] code = 38 -> "&"
    [] code = 43 -> "+"
    [] code = 47 -> "/"
    [] code = 61 -> "="
    [] code = 63 -> "?"
    [] OTHER -> OPAQUE

\* the bytes decode_hex writes to out, before its terminator
RECURSIVE decode_hex(_)
decode_hex(url) ==
  IF url = << >>
    THEN << >>
    ELSE IF Head(url) # "%" \/ ~isxdigit(CharAt(url, 2)) \/ ~isxdigit(CharAt(url, 3))
      THEN << Head(url) >> \o decode_hex(Tail(url))
      ELSE << ByteOf(BASE16_TO_10(url[2]) * 16 + BASE16_TO_10(url[3])) >>
             \o decode_hex(SubSeq(url, 4, Len(url)))

\* the second pass of decode_url, taken when conf.double_decode is set
decode_again(once, dbl) ==
  IF dbl THEN CStr(decode_hex(once)) ELSE once

\* decode_url (url) under conf.double_decode = dbl
decode_url(url, dbl) ==
  IF url = NULL \/ url = << >>
    THEN NULL
    ELSE trim_str(strip_newlines(decode_again(CStr(decode_hex(url)), dbl)))

(***************************************************************************)
(* strtol / strtoull / strtod on a token                                   *)
(***************************************************************************)

\* the longest prefix of s made of digits
RECURSIVE DigitRun(_)
DigitRun(s) ==
  IF s # << >> /\ isdigit(Head(s)) THEN << Head(s) >> \o DigitRun(Tail(s)) ELSE << >>

RECURSIVE DigitsVal(_)
DigitsVal(d) ==
  IF d = << >> THEN 0 ELSE DigitsVal(SubSeq(d, 1, Len(d) - 1)) * 10 + DigitVal(d[Len(d)])

RECURSIVE StripZeros(_)
StripZeros(d) ==
  IF Len(d) > 1 /\ Head(d) = "0" THEN StripZeros(Tail(d)) ELSE d

\* digit strings of equal length: a > b
DigitsGreater(a, b) ==
  \E k \in 1..Len(a) :
    /\ DigitVal(a[k]) > DigitVal(b[k])
    /\ \A j \in 1..(k - 1) : a[j] = b[j]

\* the magnitude d does not fit below the limit max (a digit string)
OutOfRange(d, max) ==
  LET sd == StripZeros(d)
  IN  Len(sd) > Len(max) \/ (Len(sd) = Len(max) /\ DigitsGreater(sd, max))

LONG_MAX_DIGITS ==
  << "9", "2", "2", "3", "3", "7", "2", "0", "3", "6", "8", "5", "4", "7", "7", "5", "8", "0", "7" >>

ULLONG_MAX_DIGITS ==
  << "1", "8", "4", "4", "6", "7", "4", "4", "0", "7", "3", "7", "0", "9", "5", "5", "1", "6", "1", "5" >>

\* the result of a conversion: conv: a number was read (tkn # end); full: it
\* ends the token (*end = '\0'); erange: errno is ERANGE; val: the value
Conversion(conv, full, erange, val) ==
  [conv |-> conv, full |-> full, erange |-> erange, val |-> val]

\* the conversion of the digits d read from a body of blen bytes
IntOfDigits(d, blen, neg, max) ==
  Conversion(d # << >>,
             d # << >> /\ Len(d) = blen,
             d # << >> /\ OutOfRange(d, max),
             IF d = << >> \/ OutOfRange(d, max) THEN 0
             ELSE IF neg THEN 0 - DigitsVal(d) ELSE DigitsVal(d))

\* the token without its sign
Unsigned(s) ==
  IF s # << >> /\ Head(s) \in {"+", "-"} THEN Tail(s) ELSE s

\* the integer conversion shared by strtol and strtoull: leading white space,
\* an optional sign, decimal digits.  A negative value stored in an unsigned
\* field stands for its two's complement (it is non-zero either way).
IntOf(s, max) ==
  IntOfDigits(DigitRun(Unsigned(s)), Len(Unsigned(s)), s # << >> /\ Head(s) = "-", max)

strtol(tkn) ==
  IntOf(ltrim(tkn), LONG_MAX_DIGITS)

strtoull(tkn) ==
  IntOf(ltrim(tkn), ULLONG_MAX_DIGITS)

SECS ==
  1000000

\* the first six fraction digits of f as a number of microseconds
FracUsecs(f) ==
  DigitsVal([k \in 1..6 |-> IF k <= Len(f) THEN f[k] ELSE "0"])

\* the fraction digits that follow the integer part
FracRun(after) ==
  IF after # << >> /\ Head(after) = "." THEN DigitRun(Tail(after)) ELSE << >>

\* the bytes a decimal number with integer part ip and fraction fp takes
DecimalLen(ip, fp, after) ==
  Len(ip) + (IF after # << >> /\ Head(after) = "." /\ (ip # << >> \/ fp # << >>)
               THEN 1 + Len(fp) ELSE 0)

\* the conversion of integer digits ip and fraction digits fp
DecimalOf(ip, fp, after, blen, neg) ==
  Conversion(ip # << >> \/ fp # << >>,
             (ip # << >> \/ fp # << >>) /\ DecimalLen(ip, fp, after) = blen,
             FALSE,
             IF ip = << >> /\ fp = << >> THEN 0
             ELSE IF neg THEN 0 - (DigitsVal(ip) * SECS + FracUsecs(fp))
             ELSE DigitsVal(ip) * SECS + FracUsecs(fp))

DecimalOfBody(body, ip, neg) ==
  DecimalOf(ip, FracRun(SubSeq(body, Len(ip) + 1, Len(body))),
            SubSeq(body, Len(ip) + 1, Len(body)), Len(body), neg)

DecimalOfToken(s) ==
  DecimalOfBody(Unsigned(s), DigitRun(Unsigned(s)), s # << >> /\ Head(s) = "-")

\* strtod on plain decimal notation (digits '.' digits); val is the value
\* times SECS truncated to an integer, i.e. in microseconds
strtod(tkn) ==
  DecimalOfToken(ltrim(tkn))

(***************************************************************************)
(* Collaborators outside parser.c: IP classification, the date parser,     *)
(* the agent oracle                                                        *)
(***************************************************************************)

\* the decimal groups of s split at '.'
RECURSIVE SplitDots(_)
SplitDots(s) ==
  LET dot == StrChrFrom(s, 1, ".")
  IN  IF dot = 0 THEN << s >>
      ELSE << SubSeq(s, 1, dot - 1) >> \o SplitDots(SubSeq(s, dot + 1, Len(s)))

\* invalid_ipaddr (tkn, &type): 0 for a dotted quad (groups 0..255) or for
\* an IPv6 address, of which the model knows the form ::h with 1..4 hex digits
invalid_ipaddr(tkn) ==
  LET g == SplitDots(tkn)
      v4 == /\ Len(g) = 4
            /\ \A k \in 1..4 :
                 /\ Len(g[k]) \in 1..3
                 /\ DigitRun(g[k]) = g[k]
                 /\ DigitsVal(g[k]) <= 255
      v6 == /\ Len(tkn) \in 3..6
            /\ tkn[1] = ":" /\ tkn[2] = ":"
            /\ \A k \in 3..Len(tkn) : isxdigit(tkn[k])
  IN  ~(v4 \/ v6)

\* the broken-down time before strptime: memset (&tm, 0, sizeof (tm)), which
\* the formats print as month 01 and day 00
TM_ZERO ==
  [Y |-> 0, m |-> 1, d |-> 0]

\* the field of a conversion is in range
tm_in_range(c, v) ==
  CASE c = "Y" -> TRUE
    [] c = "m" -> v \in 1..12
    [] c = "d" -> v \in 1..31
    [] OTHER -> FALSE

\* at most w leading digits of s
NumPrefix(run, w) ==
  SubSeq(run, 1, IF Len(run) < w THEN Len(run) ELSE w)

\* strptime (tkn, dfmt, &tm) for the conversions %Y, %m, %d, white space and
\* literal bytes: ok, the broken-down time, and rest, what follows the
\* parsed part of tkn (*end)
RECURSIVE strptime(_, _, _)
RECURSIVE strptime_field(_, _, _, _)
strptime_field(s, d, dfmt, tm) ==
  IF d = << >> \/ ~tm_in_range(dfmt[2], DigitsVal(d))
    THEN [ok |-> FALSE, rest |-> s, tm |-> tm]
    ELSE strptime(SubSeq(s, Len(d) + 1, Len(s)), SubSeq(dfmt, 3, Len(dfmt)),
                  [tm EXCEPT ![dfmt[2]] = DigitsVal(d)])

strptime_number(s, dfmt, tm) ==
  strptime_field(s, NumPrefix(DigitRun(s), IF dfmt[2] = "Y" THEN 4 ELSE 2), dfmt, tm)

strptime(tkn, dfmt, tm) ==
  IF dfmt = << >>
    THEN [ok |-> TRUE, rest |-> tkn, tm |-> tm]
    ELSE IF Head(dfmt) = "%" /\ Len(dfmt) >= 2
      THEN strptime_number(ltrim(tkn), dfmt, tm)
      ELSE IF isspace(Head(dfmt))
        THEN strptime(ltrim(tkn), Tail(dfmt), tm)
        ELSE IF tkn # << >> /\ Head(tkn) = Head(dfmt)
          THEN strptime(Tail(tkn), Tail(dfmt), tm)
          ELSE [ok |-> FALSE, rest |-> tkn, tm |-> tm]

DigitChars ==
  << "0", "1", "2", "3", "4", "5", "6", "7", "8", "9" >>

\* the decimal digits of n, zero-padded to width w
RECURSIVE PadNum(_, _)
PadNum(n, w) ==
  IF w = 0 THEN << >> ELSE PadNum(n \div 10, w - 1) \o << DigitChars[(n % 10) + 1] >>

\* strftime (.., "%Y%m%d", &tm) of a parsed date
format_date(r) ==
  IF ~r.ok THEN << >>
  ELSE PadNum(r.tm.Y, 4) \o PadNum(r.tm.m, 2) \o PadNum(r.tm.d, 2)

\* convert_date (date_key, date, conf.date_format, "%Y%m%d", DATE_LEN)
convert_date(date, dfmt) ==
  format_date(strptime(date, dfmt, TM_ZERO))

\* is_crawler (agent): the oracle knows agents that name a bot
is_crawler(agent) ==
  StrStr(agent, << "b", "o", "t" >>) # 0

\* verify_browser (agent, type): the product name before the first '/',
\* NULL for an empty agent
verify_browser(agent) ==
  IF agent = << >> THEN NULL
  ELSE IF StrChrFrom(agent, 1, "/") = 0 THEN agent
  ELSE SubSeq(agent, 1, StrChrFrom(agent, 1, "/") - 1)

UNKNOWN_OS ==
  << "U", "n", "k", "n", "o", "w", "n" >>

\* verify_os (agent, type): the text in parentheses, "Unknown" without one
verify_os(agent) ==
  IF agent = << >> THEN NULL
  ELSE IF StrChrFrom(agent, 1, "(") = 0
          \/ StrChrFrom(agent, 1, ")") < StrChrFrom(agent, 1, "(")
    THEN UNKNOWN_OS
  ELSE SubSeq(agent, StrChrFrom(agent, 1, "(") + 1, StrChrFrom(agent, 1, ")") - 1)

(***************************************************************************)
(* Counter tables (glibht.c / tcabinet.c): key -> hits or bytes            *)
(***************************************************************************)

EmptyTable ==
  [k \in {} |-> 0]

\* the table after adding v at key k
TableAdd(t, k, v) ==
  IF k \in DOMAIN t THEN [t EXCEPT ![k] = @ + v] ELSE t @@ (k :> v)

\* process_generic_data (ht, key): the table after the call
process_generic_data(t, k) ==
  TableAdd(t, k, 1)

\* the value process_generic_data returns: -1 when the key was not found
KEY_NOT_FOUND(t, k) ==
  k \notin DOMAIN t

\* process_request_meta (ht, key, size)
process_request_meta(t, k, size) ==
  TableAdd(t, k, size)

\* process_host_agents (host, agent): the set of agents seen for the host
process_host_agents(t, host, agent) ==
  IF host \in DOMAIN t THEN [t EXCEPT ![host] = @ \cup {agent}] ELSE t @@ (host :> {agent})

\* the sum of a table's values
RECURSIVE TableSum(_)
TableSum(t) ==
  IF DOMAIN t = {} THEN 0
  ELSE LET k == CHOOSE x \in DOMAIN t : TRUE
       IN  t[k] + TableSum([x \in DOMAIN t \ {k} |-> t[x]])

(***************************************************************************)
(* State                                                                   *)
(***************************************************************************)

VARIABLES
  conf,        \* the configuration (settings.h): formats, flags, lists
  TCB_BTREE,   \* whether the build defines TCB_BTREE (on-disk general stats)
  input,       \* the lines the log source can deliver to fgets
  n,           \* read_log's n: -1 in full mode, the line limit in test mode
  i,           \* read_log's i: lines counted against n
  nread,       \* lines fgets has delivered so far
  line,        \* read_log's line buffer
  pc,          \* where the driver is: "read", "lock", "count", "unlock",
               \* "fmt", "post" or "done"
  logger,      \* GLog: process, invalid, exclude_ip, resp_size
  glog,        \* the GLogItem of the line being processed
  p,           \* parse_format's cursor into the log format
  str,         \* parse_format's cursor into the line
  special,     \* parse_format's special flag
  rc,          \* what parse_format returned for the line
  ht,          \* the counter tables
  ret,         \* what test_format returned, -1 before it returns
  parsed,      \* history: lines that left the parser with host, date and req
  seen,        \* history: specifiers of this line that took a token
  parsing_spinner, \* "NULL", or the state of *parsing_spinner
  mutex,       \* who holds parsing_spinner->mutex: "free", "driver", "spinner"
  spc,         \* where the spinner thread is: "idle" or "render"
  changes,     \* how often the spinner's state was changed
  unowned      \* history: the driver unlocked the mutex without holding it

\* the spinner and its mutex
spin_vars ==
  << parsing_spinner, mutex, spc, changes, unowned >>

vars ==
  << conf, TCB_BTREE, input, n, i, nread, line, pc, logger, glog, p, str,
     special, rc, ht, ret, parsed, seen, parsing_spinner, mutex, spc, changes,
     unowned >>

(***************************************************************************)
(* Field tokenizer and request parsing                                     *)
(***************************************************************************)

\* the do-while of parse_string from pch on, idx delimiters counted so far
RECURSIVE parse_string_scan(_, _, _, _, _, _)
parse_string_scan(b, start, pch, idx, end, cnt) ==
  IF (CharAt(b, pch) = end /\ cnt = idx + 1) \/ CharAt(b, pch) = NUL
    THEN [tkn |-> trim_str(SubSeq(b, start, pch - 1)), str |-> pch]
    ELSE IF CharAt(b, IF CharAt(b, pch) = "\\" THEN pch + 1 ELSE pch) = NUL
      THEN [tkn |-> NULL, str |-> start]
      ELSE parse_string_scan(b, start,
                             IF CharAt(b, pch) = "\\" THEN pch + 2 ELSE pch + 1,
                             IF CharAt(b, pch) = end THEN idx + 1 ELSE idx,
                             end, cnt)

\* parse_string (&str, end, cnt) on buffer b: the token and the new cursor
parse_string(b, s, end, cnt) ==
  parse_string_scan(b, s, s, 0, end, cnt)

Methods ==
  << << "O", "P", "T", "I", "O", "N", "S" >>, << "G", "E", "T" >>,
     << "H", "E", "A", "D" >>, << "P", "O", "S", "T" >>, << "P", "U", "T" >>,
     << "D", "E", "L", "E", "T", "E" >>, << "T", "R", "A", "C", "E" >>,
     << "C", "O", "N", "N", "E", "C", "T" >>, << "P", "A", "T", "C", "H" >>,
     << "o", "p", "t", "i", "o", "n", "s" >>, << "g", "e", "t" >>,
     << "h", "e", "a", "d" >>, << "p", "o", "s", "t" >>, << "p", "u", "t" >>,
     << "d", "e", "l", "e", "t", "e" >>, << "t", "r", "a", "c", "e" >>,
     << "c", "o", "n", "n", "e", "c", "t" >>, << "p", "a", "t", "c", "h" >> >>

\* extract_method (token): the first method of the list that token begins with
extract_method(token) ==
  IF \A k \in 1..Len(Methods) : ~HasPrefixAt(token, 1, Methods[k])
    THEN NULL
    ELSE Methods[Least({k \in 1..Len(Methods) : HasPrefixAt(token, 1, Methods[k])})]

HTTP10 ==
  << "H", "T", "T", "P", "/", "1", ".", "0" >>

HTTP11 ==
  << "H", "T", "T", "P", "/", "1", ".", "1" >>

invalid_protocol(token) ==
  ~(HasPrefixAt(token, 1, HTTP10) \/ HasPrefixAt(token, 1, HTTP11))

\* alloc_string ("-")
Dash ==
  << "-" >>

\* strstr (line, " HTTP/1.0"), or else strstr (line, " HTTP/1.1")
find_protocol(tkn) ==
  IF StrStr(tkn, << " " >> \o HTTP10) # 0
    THEN StrStr(tkn, << " " >> \o HTTP10)
    ELSE StrStr(tkn, << " " >> \o HTTP11)

\* the end of parse_req: the decoded request, or the raw one if decode_url
\* returned NULL
decoded_request(request, dreq) ==
  IF dreq # NULL THEN dreq ELSE request

\* parse_req with meth the method found, req the offset after the method
\* and its separator, proto the offset of the protocol suffix (0: none)
parse_req_method(tkn, method, protocol, meth, req, proto) ==
  IF proto = 0 \/ proto - req <= 0
    THEN [req |-> Dash, method |-> method, protocol |-> protocol]
    ELSE [ req |-> decoded_request(SubSeq(tkn, req, proto - 1),
                                   decode_url(SubSeq(tkn, req, proto - 1),
                                              conf.double_decode)),
           method |-> IF conf.append_method THEN strtoupper(meth) ELSE method,
           protocol |-> IF conf.append_protocol
                          THEN strtoupper(SubSeq(tkn, proto + 1, Len(tkn)))
                          ELSE protocol ]

\* parse_req (line, &method, &protocol): the request returned and the
\* method and protocol it leaves in the item
parse_req(tkn, method, protocol) ==
  IF extract_method(tkn) = NULL
    THEN [ req |-> decoded_request(tkn, decode_url(tkn, conf.double_decode)),
           method |-> method, protocol |-> protocol ]
    ELSE parse_req_method(tkn, method, protocol, extract_method(tkn),
                          Len(extract_method(tkn)) + 2, find_protocol(tkn))

REF_SITE_LEN ==
  512

\* the site of len0 bytes found at offset begin of the referer
referer_site(referer, host, begin, len0) ==
  IF len0 = 0 THEN host
  ELSE SubSeq(referer, begin,
              begin + (IF len0 >= REF_SITE_LEN THEN REF_SITE_LEN - 1 ELSE len0) - 1)

\* extract_referer_site once "//" was found, begin being the offset after it
referer_site_at(referer, host, begin) ==
  referer_site(referer, host, begin,
               IF StrChrFrom(referer, begin, "/") # 0
                 THEN StrChrFrom(referer, begin, "/") - begin
                 ELSE Len(referer) - begin + 1)

\* extract_referer_site (referer, host): the bytes left in host
extract_referer_site(referer, host) ==
  IF referer = << >> \/ StrStr(referer, << "/", "/" >>) = 0
    THEN host
    ELSE referer_site_at(referer, host, StrStr(referer, << "/", "/" >>) + 2)

(***************************************************************************)
(* parse_specifier                                                         *)
(***************************************************************************)

\* the result of one parse_specifier call: its return value, the item, the
\* line cursor and the configuration it leaves
SpecResult(r, g, s, cf) ==
  [rc |-> r, glog |-> g, str |-> s, conf |-> cf]

\* a conversion that leaves the field 0: nothing read, trailing bytes, ERANGE
failed(cv) ==
  ~cv.conv \/ ~cv.full \/ cv.erange

\* case 'd' with the token t and the result tm of strptime on it
parse_specifier_d(g, s, cf, t, tm) ==
  IF g.date # NULL \/ t.tkn = NULL \/ ~tm.ok \/ tm.rest # << >>
    THEN SpecResult(1, g, s, cf)
    ELSE SpecResult(0, [g EXCEPT !.date = t.tkn], t.str, cf)

\* case 'h': remote hostname (IP only)
parse_specifier_h(g, s, cf, t) ==
  IF g.host # NULL \/ t.tkn = NULL \/ invalid_ipaddr(t.tkn)
    THEN SpecResult(1, g, s, cf)
    ELSE SpecResult(0, [g EXCEPT !.host = t.tkn], t.str, cf)

\* case 'm': request method
parse_specifier_m(g, s, cf, t) ==
  IF g.method # NULL \/ t.tkn = NULL \/ extract_method(t.tkn) = NULL
    THEN SpecResult(1, g, s, cf)
    ELSE SpecResult(0, [g EXCEPT !.method = t.tkn], t.str, cf)

\* case 'U': request not including method or protocol
parse_specifier_U(g, s, cf, t) ==
  IF g.req # NULL \/ t.tkn = NULL \/ t.tkn = << >>
    THEN SpecResult(1, g, s, cf)
    ELSE SpecResult(0, [g EXCEPT !.req = decode_url(t.tkn, cf.double_decode)],
                    t.str, cf)

\* case 'H': request protocol
parse_specifier_H(g, s, cf, t) ==
  IF g.protocol # NULL \/ t.tkn = NULL \/ invalid_protocol(t.tkn)
    THEN SpecResult(1, g, s, cf)
    ELSE SpecResult(0, [g EXCEPT !.protocol = t.tkn], t.str, cf)

\* the item after case 'r' stored what parse_req returned
store_request(g, r) ==
  [g EXCEPT !.req = r.req, !.method = r.method, !.protocol = r.protocol]

\* a case 'r' that rejects the line when parse_req returns the placeholder
parse_specifier_r_strict(g, s, cf, t) ==
  IF g.req # NULL \/ t.tkn = NULL \/ parse_req(t.tkn, g.method, g.protocol).req = Dash
    THEN SpecResult(1, g, s, cf)
    ELSE SpecResult(0, store_request(g, parse_req(t.tkn, g.method, g.protocol)),
                    t.str, cf)

\* case 'r': request, including method + protocol
parse_specifier_r(g, s, cf, t) ==
  IF g.req # NULL \/ t.tkn = NULL
    THEN SpecResult(1, g, s, cf)
    ELSE SpecResult(0, store_request(g, parse_req(t.tkn, g.method, g.protocol)),
                    t.str, cf)

\* case 's': status code
parse_specifier_s(g, s, cf, t) ==
  IF g.status # NULL \/ t.tkn = NULL \/ failed(strtol(t.tkn))
    THEN SpecResult(1, g, s, cf)
    ELSE SpecResult(0, [g EXCEPT !.status = t.tkn], t.str, cf)

\* case 'b': size of response in bytes
parse_specifier_b(g, s, cf, t) ==
  IF g.resp_size # 0 \/ t.tkn = NULL
    THEN SpecResult(1, g, s, cf)
    ELSE SpecResult(0,
                    [g EXCEPT !.resp_size = IF failed(strtol(t.tkn)) THEN 0
                                            ELSE strtol(t.tkn).val],
                    t.str, [cf EXCEPT !.bandwidth = TRUE])

\* the referrer token case 'R' stores: "-" for a missing or empty one
referer_token(t) ==
  IF t.tkn = NULL \/ t.tkn = << >> THEN Dash ELSE t.tkn

\* case 'R': referrer
parse_specifier_R(g, s, cf, t) ==
  IF g.ref # NULL
    THEN SpecResult(1, g, s, cf)
    ELSE SpecResult(0,
                    [g EXCEPT !.ref = referer_token(t),
                              !.site = IF referer_token(t) # Dash
                                         THEN extract_referer_site(referer_token(t), g.site)
                                         ELSE g.site],
                    t.str, cf)

\* case 'u': user agent
parse_specifier_u(g, s, cf, t) ==
  IF g.agent # NULL
    THEN SpecResult(1, g, s, cf)
    ELSE SpecResult(0,
                    [g EXCEPT !.agent =
                       IF t.tkn # NULL /\ t.tkn # << >>
                         THEN char_replace(decode_url(t.tkn, cf.double_decode), "+", " ")
                         ELSE Dash],
                    t.str, cf)

\* serve_secs * SECS of case 'T', cv being the conversion by strtod for a
\* token with a '.', by strtoull otherwise; unsigned tokens only (a negative
\* integer wraps and its product overflows the conversion to an integer)
serve_usecs_of(float, cv) ==
  IF failed(cv) THEN 0
  ELSE IF float THEN (IF cv.val > 0 THEN cv.val ELSE 0)
  ELSE (IF cv.val > 0 THEN cv.val * SECS ELSE 0)

\* case 'T' past its two guards: parse the token as seconds
parse_seconds(g, s, cf, t) ==
  IF t.tkn = NULL
    THEN SpecResult(1, g, s, cf)
    ELSE SpecResult(0,
                    [g EXCEPT !.serve_time =
                       serve_usecs_of(StrChrFrom(t.tkn, 1, ".") # 0,
                                      IF StrChrFrom(t.tkn, 1, ".") # 0
                                        THEN strtod(t.tkn) ELSE strtoull(t.tkn))],
                    t.str, [cf EXCEPT !.serve_usecs = TRUE])

\* case 'T': time taken to serve the request, in seconds
parse_specifier_T(g, lfmt, s, cf, t) ==
  IF g.serve_time # 0
    THEN SpecResult(1, g, s, cf)
    ELSE IF StrStr(lfmt, << "%", "D" >>) # 0
      THEN SpecResult(0, g, s, cf)
      ELSE parse_seconds(g, s, cf, t)

\* case 'D': time taken to serve the request, in microseconds
parse_specifier_D(g, s, cf, t) ==
  IF g.serve_time # 0 \/ t.tkn = NULL
    THEN SpecResult(1, g, s, cf)
    ELSE SpecResult(0,
                    [g EXCEPT !.serve_time = IF failed(strtoull(t.tkn)) THEN 0
                                             ELSE strtoull(t.tkn).val],
                    t.str, [cf EXCEPT !.serve_usecs = TRUE])

\* strchr (*str, end) of the default case, as an offset into here = *str
\* (strchr finds the terminator when end is '\0')
skip_offset(here, end) ==
  IF end = NUL THEN Len(here) + 1 ELSE StrChrFrom(here, 1, end)

\* the default case: everything else, skip it
parse_specifier_skip(g, s, cf, pch) ==
  SpecResult(0, g, IF pch # 0 THEN s + pch - 1 ELSE s, cf)

\* the switch of parse_specifier on c = *p, end being p[1] and t the token
\* parse_string returns for delimiter end
parse_specifier_case(g, lfmt, dfmt, b, s, cf, c, end, t) ==
  CASE c = "d" -> parse_specifier_d(g, s, cf,
                    parse_string(b, s, end, count_matches(dfmt, " ") + 1),
                    strptime(parse_string(b, s, end, count_matches(dfmt, " ") + 1).tkn,
                             dfmt, TM_ZERO))
    [] c = "h" -> parse_specifier_h(g, s, cf, t)
    [] c = "m" -> parse_specifier_m(g, s, cf, t)
    [] c = "U" -> parse_specifier_U(g, s, cf, t)
    [] c = "H" -> parse_specifier_H(g, s, cf, t)
    [] c = "r" -> parse_specifier_r(g, s, cf, t)
    [] c = "s" -> parse_specifier_s(g, s, cf, t)
    [] c = "b" -> parse_specifier_b(g, s, cf, t)
    [] c = "R" -> parse_specifier_R(g, s, cf, t)
    [] c = "u" -> parse_specifier_u(g, s, cf, t)
    [] c = "T" -> parse_specifier_T(g, lfmt, s, cf, t)
    [] c = "D" -> parse_specifier_D(g, s, cf, t)
    [] OTHER -> parse_specifier_skip(g, s, cf, skip_offset(StrFrom(b, s), end))

\* parse_specifier (glog, lfmt, dfmt, &str, p), p being an offset into lfmt
parse_specifier(g, lfmt, dfmt, b, s, pp, cf) ==
  parse_specifier_case(g, lfmt, dfmt, b, s, cf, lfmt[pp], CharAt(lfmt, pp + 1),
                       parse_string(b, s, CharAt(lfmt, pp + 1), 1))

(***************************************************************************)
(* Record classifier and aggregation dispatcher                            *)
(***************************************************************************)

GOOGLE_WWW ==
  << "h", "t", "t", "p", ":", "/", "/", "w", "w", "w", ".", "g", "o", "o", "g", "l", "e", "." >>

GOOGLE_CACHE ==
  << "h", "t", "t", "p", ":", "/", "/", "w", "e", "b", "c", "a", "c", "h", "e", ".", "g", "o", "o", "g", "l", "e", "u", "s", "e", "r", "c", "o", "n", "t", "e", "n", "t", ".", "c", "o", "m", "/" >>

GOOGLE_TRANSLATE ==
  << "h", "t", "t", "p", ":", "/", "/", "t", "r", "a", "n", "s", "l", "a", "t", "e", ".", "g", "o", "o", "g", "l", "e", "u", "s", "e", "r", "c", "o", "n", "t", "e", "n", "t", ".", "c", "o", "m", "/" >>

\* the referer names one of the Google hosts
is_google(ref) ==
  \/ StrStr(ref, GOOGLE_WWW) # 0
  \/ StrStr(ref, GOOGLE_CACHE) # 0
  \/ StrStr(ref, GOOGLE_TRANSLATE) # 0

KEY_SLASH_PLUS_AMP ==
  << "/", "+", "&" >>

KEY_SLASH_PLUS ==
  << "/", "+" >>

KEY_CACHE ==
  << "q", "=", "c", "a", "c", "h", "e", ":" >>

KEY_AMP_Q ==
  << "&", "q", "=" >>

KEY_QMARK_Q ==
  << "?", "q", "=" >>

KEY_AMP_Q_ENCODED ==
  << "%", "2", "6", "q", "%", "3", "D" >>

KEY_QMARK_Q_ENCODED ==
  << "%", "3", "F", "q", "%", "3", "D" >>

\* r after the "q=cache:" branch: past the next '+', if there is one
cache_start(ref, at) ==
  IF StrChrFrom(ref, at, "+") # 0 THEN StrChrFrom(ref, at, "+") + 1 ELSE at

\* the offset r at which the keyphrase begins, 0 when no anchor matches
keyphrase_start(ref) ==
  CASE StrStr(ref, KEY_SLASH_PLUS) # 0 -> StrStr(ref, KEY_SLASH_PLUS) + 2
    [] StrStr(ref, KEY_CACHE) # 0 -> cache_start(ref, StrStr(ref, KEY_CACHE))
    [] StrStr(ref, KEY_AMP_Q) # 0 -> StrStr(ref, KEY_AMP_Q) + 3
    [] StrStr(ref, KEY_QMARK_Q) # 0 -> StrStr(ref, KEY_QMARK_Q) + 3
    [] StrStr(ref, KEY_AMP_Q_ENCODED) # 0 -> StrStr(ref, KEY_AMP_Q_ENCODED) + 7
    [] StrStr(ref, KEY_QMARK_Q_ENCODED) # 0 -> StrStr(ref, KEY_QMARK_Q_ENCODED) + 7
    [] OTHER -> 0

\* the anchor that matched is one of the encoded ones
keyphrase_encoded(ref) ==
  /\ StrStr(ref, KEY_SLASH_PLUS) = 0
  /\ StrStr(ref, KEY_CACHE) = 0
  /\ StrStr(ref, KEY_AMP_Q) = 0
  /\ StrStr(ref, KEY_QMARK_Q) = 0

\* the offset in tail = r of the byte the function overwrites with '\0':
\* the next '&', or the next "%26" after an encoded anchor; 0 for none
keyphrase_end(tail, encoded) ==
  IF encoded THEN StrStr(tail, << "%", "2", "6" >>) ELSE StrChrFrom(tail, 1, "&")

\* the keyphrase recorded, given the decoded text from r on
keyphrase_of(referer) ==
  IF referer = NULL \/ referer = << >>
    THEN NULL
    ELSE trim_str(char_replace(referer, "+", " "))

\* ref once the terminator was written at offset r + amp - 1 (amp = 0: not
\* written), and the keyphrase decoded from r on
keyphrase_cut(ref, r, amp) ==
  [ ref |-> IF amp # 0 THEN SubSeq(ref, 1, r + amp - 2) ELSE ref,
    key |-> keyphrase_of(decode_url(IF amp # 0 THEN SubSeq(ref, r, r + amp - 2)
                                    ELSE SubSeq(ref, r, Len(ref)),
                                    conf.double_decode)) ]

\* process_keyphrases (ref): what is left in ref (the function writes a
\* terminator into it) and the key recorded into ht_keyphrases, NULL if none
process_keyphrases(ref) ==
  IF ~is_google(ref) \/ StrStr(ref, KEY_SLASH_PLUS_AMP) # 0 \/ keyphrase_start(ref) = 0
    THEN [ref |-> ref, key |-> NULL]
    ELSE keyphrase_cut(ref, keyphrase_start(ref),
                       keyphrase_end(SubSeq(ref, keyphrase_start(ref), Len(ref)),
                                     keyphrase_encoded(ref)))

\* the end of process_referrers: count the decoded referer
count_referrer(h, ref) ==
  IF ref = NULL \/ ref = << >>
    THEN h
    ELSE [h EXCEPT !.referrers = process_generic_data(@, ref)]

\* process_referrers after the site was counted, k being what
\* process_keyphrases made of the referrer
count_keyphrase(h, k) ==
  count_referrer(IF k.key # NULL
                   THEN [h EXCEPT !.keyphrases = process_generic_data(@, k.key)]
                   ELSE h,
                 decode_url(k.ref, conf.double_decode))

\* process_referrers (referrer, site): the tables after the call
process_referrers(h, referrer, site) ==
  IF referrer = NULL
    THEN h
    ELSE count_keyphrase(IF site # << >>
                           THEN [h EXCEPT !.referring_sites = process_generic_data(@, site)]
                           ELSE h,
                         process_keyphrases(referrer))

UKEY_BUFFER ==
  2048

\* the bytes snprintf leaves in a buffer of size bytes
snprintf(full, size) ==
  IF Len(full) > size - 1 THEN SubSeq(full, 1, size - 1) ELSE full

\* snprintf (visitor_key, sizeof (visitor_key), "%s|%s|%s", host, date_key, a)
visitor_key(g) ==
  snprintf(g.host \o << "|" >> \o g.date_key \o << "|" >> \o deblank(g.agent),
           UKEY_BUFFER)

\* process_browser / process_opesys: count the name the oracle gave, if any
count_name(t, name) ==
  IF name # NULL THEN process_generic_data(t, name) ELSE t

\* process_unique_data with the visitor key built
unique_visitor(h, g, key) ==
  IF KEY_NOT_FOUND(h.unique_visitors, key)
    THEN [h EXCEPT !.unique_visitors = process_generic_data(@, key),
                   !.unique_vis = process_generic_data(@, g.date_key),
                   !.browsers = count_name(@, verify_browser(g.agent)),
                   !.os = count_name(@, verify_os(g.agent))]
    ELSE [h EXCEPT !.unique_visitors = process_generic_data(@, key)]

\* process_unique_data (glog): visitors, browsers and OS on a unique key
process_unique_data(h, g) ==
  unique_visitor(h, g, visitor_key(g))

\* a unique_data without the gate on client errors
unique_data_ungated(h, g) ==
  process_unique_data(h, g)

\* unique_data (glog): process visitors, browsers and OS
unique_data(h, g) ==
  IF g.status = NULL \/ CharAt(g.status, 1) # "4"
       \/ (conf.client_err_to_unique_count /\ CharAt(g.status, 1) = "4")
    THEN process_unique_data(h, g)
    ELSE h

\* "%s %s" of append_method_to_request and append_protocol_to_request
append_to_request(key, word) ==
  IF key = << >> \/ word = NULL \/ word = << >> THEN key ELSE word \o << " " >> \o key

\* memcmp (nul - elen, ext, elen) == 0; an extension longer than the
\* request does not arise, static_file_max_len being the longest one
suffix_is(req, ext) ==
  /\ Len(ext) <= Len(req)
  /\ SubSeq(req, Len(req) - Len(ext) + 1, Len(req)) = ext

\* verify_static_content (req): the request seems to be a static file
verify_static_content(req) ==
  /\ Len(req) >= conf.static_file_max_len
  /\ \E k \in 1..conf.static_file_idx :
       conf.static_files[k] # << >> /\ suffix_is(req, conf.static_files[k])

STATUS_404 ==
  << "4", "0", "4" >>

STATUS_444 ==
  << "4", "4", "4" >>

\* the first branches of process_log: is this a 404?
is404(g) ==
  \/ g.status # NULL /\ HasPrefixAt(g.status, 1, STATUS_404)
  \/ g.status # NULL /\ HasPrefixAt(g.status, 1, STATUS_444) /\ conf.code444_as_404

\* glog->req after the query-string branch of process_log
strip_qstr(g) ==
  IF ~is404(g) /\ conf.ignore_qstr /\ StrChrFrom(g.req, 1, "?") - 1 > 0
    THEN SubSeq(g.req, 1, StrChrFrom(g.req, 1, "?") - 1)
    ELSE g.req

\* req_key with the method put before it
key_method(key, g) ==
  IF conf.append_method /\ g.method # NULL
    THEN append_to_request(key, strtoupper(g.method)) ELSE key

\* req_key with the protocol put before it
key_protocol(key, g) ==
  IF conf.append_protocol /\ g.protocol # NULL
    THEN append_to_request(key, strtoupper(g.protocol)) ELSE key

key_deblank(key) ==
  IF conf.append_method \/ conf.append_protocol THEN deblank(key) ELSE key

\* glog->req_key as process_log builds it
make_req_key(g) ==
  key_deblank(key_protocol(key_method(strip_qstr(g), g), g))

\* the table process_log passes to process_request for the record
request_table(g) ==
  IF is404(g) THEN "not_found_requests"
  ELSE IF verify_static_content(strip_qstr(g)) THEN "requests_static"
  ELSE "requests"

\* the calls of process_log from unique_data to process_request
dispatch_request(h, g, tbl) ==
  [h EXCEPT !.host_agents = IF conf.list_agents
                              THEN process_host_agents(@, g.host, g.agent) ELSE @,
            !.status_code = IF g.status # NULL
                              THEN process_generic_data(@, g.status) ELSE @,
            ![tbl] = process_generic_data(@, g.req_key)]

\* the calls of process_log after process_referrers
dispatch_meta(h, g) ==
  [h EXCEPT !.hosts = process_generic_data(@, g.host),
            !.date_bw = process_request_meta(@, g.date_key, g.resp_size),
            !.file_bw = process_request_meta(@, g.req_key, g.resp_size),
            !.host_bw = process_request_meta(@, g.host, g.resp_size),
            !.file_serve_usecs = process_request_meta(@, g.req_key, g.serve_time),
            !.host_serve_usecs = process_request_meta(@, g.host, g.serve_time),
            !.general_stats = IF TCB_BTREE
                                THEN process_request_meta(@, "bandwidth", g.resp_size)
                                ELSE @]

\* process_log once req and req_key are settled
dispatch(h, g, tbl) ==
  dispatch_meta(process_referrers(dispatch_request(unique_data(h, g), g, tbl),
                                  g.ref, g.site), g)

\* process_log (glog): the tables after the record was dispatched
process_log(h, g) ==
  dispatch(h, [g EXCEPT !.req = strip_qstr(g), !.req_key = make_req_key(g)],
           request_table(g))

(***************************************************************************)
(* Driver: read_log, pre_process_log, parse_format, test_format            *)
(***************************************************************************)

\* lines delivered to one run of read_log
MaxLines ==
  2

\* the n test_format passes to parse_log
TEST_LINES ==
  20

\* init_log_item (logger)
init_log_item ==
  [ agent |-> NULL, date |-> NULL, host |-> NULL, ref |-> NULL,
    method |-> NULL, protocol |-> NULL, req |-> NULL, status |-> NULL,
    resp_size |-> 0, serve_time |-> 0, site |-> << >>,
    date_key |-> << >>, req_key |-> NULL ]

\* the specifiers of parse_specifier that have a target field
FieldSpecifiers ==
  {"d", "h", "m", "U", "H", "r", "s", "b", "R", "u", "T", "D"}

\* valid_line (line): 1 for an empty line, a comment or a blank line
valid_line(b) ==
  CharAt(b, 1) = NUL \/ CharAt(b, 1) = "#" \/ CharAt(b, 1) = "\n"

\* the general-stats table after a TCB_BTREE build counted under key
general_stat(h, key) ==
  IF TCB_BTREE
    THEN [h EXCEPT !.general_stats = process_generic_data(@, key)]
    ELSE h

\* count_invalid (logger): the driver counters after the call
count_invalid(lg) ==
  [lg EXCEPT !.invalid = @ + 1]

\* count_process (logger): the driver counters after the call
count_process(lg) ==
  [lg EXCEPT !.process = @ + 1]

\* a driver whose IP-range test never matches
exclude_ip_never(g) ==
  FALSE

\* exclude_ip (logger, glog) returns 0: the host is in an ignored range
exclude_ip(g) ==
  conf.ignore_ip_idx # 0 /\ g.host \in conf.ignore_ips

\* exclude_crawler (glog) returns 0
exclude_crawler(g) ==
  conf.ignore_crawlers /\ is_crawler(g.agent)

\* ignore_referer (site): the site is on the ignore list
ignore_referer(site) ==
  site \in conf.ignore_referers

\* the item pre_process_log hands on once the required fields are there
complete_item(g) ==
  [g EXCEPT !.agent = IF g.agent = NULL THEN Dash ELSE g.agent,
            !.date_key = convert_date(g.date, conf.date_format)]

\* the required fields of pre_process_log are all set
has_required(g) ==
  g.host # NULL /\ g.date # NULL /\ g.req # NULL

\* pre_process_log reaches process_log for the item
retained(g) ==
  /\ has_required(g)
  /\ ~exclude_ip(g)
  /\ ~exclude_crawler(complete_item(g))
  /\ ~ignore_referer(g.site)

\* fgets (line, LINE_BUFFER, fp) delivering l: the bytes after the new
\* terminator keep what the buffer held
fgets(b, l) ==
  l \o << NUL >> \o SubSeq(b, Len(l) + 2, Len(b))

\* pre_process_log up to its call of count_process, on the buffer b fgets
\* filled: a comment or blank line is counted invalid, any other line
\* goes on to count_process
StartLine(b) ==
  /\ line' = b
  /\ IF valid_line(b)
       THEN /\ logger' = count_invalid(logger)
            /\ ht' = general_stat(ht, "failed_requests")
            /\ pc' = "read"
       ELSE /\ pc' = "lock"
            /\ UNCHANGED << logger, ht >>

\* one turn of read_log's loop: fgets delivers a line, the test limit is
\* not reached, and pre_process_log starts on the line
ReadLogLine ==
  /\ pc = "read"
  /\ nread < MaxLines
  /\ ~(n >= 0 /\ i = n)
  /\ \E l \in input : StartLine(fgets(line, l))
  /\ i' = IF n >= 0 THEN i + 1 ELSE i
  /\ nread' = nread + 1
  /\ glog' = init_log_item
  /\ p' = 1
  /\ str' = 1
  /\ special' = 0
  /\ seen' = {}
  /\ UNCHANGED << conf, TCB_BTREE, input, n, rc, ret, parsed >>
  /\ UNCHANGED spin_vars

\* what the driver leaves alone inside count_process
count_frame ==
  << conf, TCB_BTREE, input, n, i, nread, line, glog, p, str, special, ret,
     parsed, seen, parsing_spinner, spc, changes >>

\* lock_spinner () in count_process: pthread_mutex_lock, which waits for
\* the mutex, when there is a spinner and it is in state SPN_RUN
LockSpinner ==
  /\ pc = "lock"
  /\ IF parsing_spinner = "SPN_RUN"
       THEN mutex = "free" /\ mutex' = "driver"
       ELSE mutex' = mutex
  /\ pc' = "count"
  /\ UNCHANGED << logger, ht, rc, unowned >>
  /\ UNCHANGED count_frame

\* logger->process++ in count_process, and the general-stats count of
\* TCB_BTREE builds
CountProcess ==
  /\ pc = "count"
  /\ logger' = count_process(logger)
  /\ ht' = general_stat(ht, "total_requests")
  /\ pc' = "unlock"
  /\ UNCHANGED << rc, mutex, unowned >>
  /\ UNCHANGED count_frame

\* unlock_spinner () in count_process, which reads the spinner's state
\* again; unlocking a mutex the thread does not hold is undefined: it is
\* left as it is or released.  Then init_log_item and the first test of
\* parse_format
UnlockSpinner ==
  /\ pc = "unlock"
  /\ IF parsing_spinner # "SPN_RUN"
       THEN UNCHANGED << mutex, unowned >>
       ELSE IF mutex = "driver"
         THEN mutex' = "free" /\ unowned' = unowned
         ELSE mutex' \in {mutex, "free"} /\ unowned' = TRUE
  /\ pc' = IF CharAt(line, 1) = NUL THEN "post" ELSE "fmt"
  /\ rc' = IF CharAt(line, 1) = NUL THEN 1 ELSE 0
  /\ UNCHANGED << logger, ht >>
  /\ UNCHANGED count_frame

\* the specifier c took a token of the line for its field
took_token(c, r) ==
  /\ c \in FieldSpecifiers
  /\ r.rc = 0
  /\ ~(c = "T" /\ StrStr(conf.log_format, << "%", "D" >>) # 0)

\* one turn of the loop of parse_format, c being *p and r what
\* parse_specifier returns at this place, or the return after the loop
FormatTurn(c, r) ==
  IF c = NUL
    THEN /\ pc' = "post" /\ rc' = 0
         /\ UNCHANGED << p, str, special, glog, conf, seen >>
  ELSE IF c = "%"
    THEN /\ special' = special + 1 /\ p' = p + 1
         /\ UNCHANGED << pc, rc, str, glog, conf, seen >>
  ELSE IF special # 0 /\ CharAt(line, str) = NUL
    THEN /\ pc' = "post" /\ rc' = 0
         /\ UNCHANGED << p, str, special, glog, conf, seen >>
  ELSE IF special # 0 /\ r.rc = 1
    THEN /\ pc' = "post" /\ rc' = 1
         /\ UNCHANGED << p, str, special, glog, conf, seen >>
  ELSE IF special # 0
    THEN /\ glog' = r.glog /\ str' = r.str /\ conf' = r.conf
         /\ special' = 0 /\ p' = p + 1
         /\ seen' = IF took_token(c, r) THEN seen \cup {c} ELSE seen
         /\ UNCHANGED << pc, rc >>
  ELSE IF special # 0 /\ isspace(c)
    THEN /\ pc' = "post" /\ rc' = 1
         /\ UNCHANGED << p, str, special, glog, conf, seen >>
  ELSE /\ str' = str + 1 /\ p' = p + 1
       /\ UNCHANGED << pc, rc, special, glog, conf, seen >>

\* parse_format (glog, conf.log_format, conf.date_format, line), one turn
ParseFormatStep ==
  /\ pc = "fmt"
  /\ FormatTurn(CharAt(conf.log_format, p),
                parse_specifier(glog, conf.log_format, conf.date_format,
                                line, str, p, conf))
  /\ UNCHANGED << TCB_BTREE, input, n, i, nread, line, logger, ht, ret, parsed >>
  /\ UNCHANGED spin_vars

\* pre_process_log after parse_format returned rc: g is the item with the
\* agent defaulted and the date key made, test the mode
Classify(g, test) ==
  IF rc = 1 \/ ~has_required(glog)
    THEN /\ logger' = count_invalid(logger)
         /\ ht' = general_stat(ht, "failed_requests")
         /\ parsed' = parsed
  ELSE IF test
    THEN /\ parsed' = parsed + 1
         /\ UNCHANGED << logger, ht >>
  ELSE IF exclude_ip(g)
    THEN /\ logger' = [logger EXCEPT !.exclude_ip = @ + 1]
         /\ ht' = general_stat(ht, "exclude_ip")
         /\ parsed' = parsed + 1
  ELSE IF exclude_crawler(g) \/ ignore_referer(g.site)
    THEN /\ parsed' = parsed + 1
         /\ UNCHANGED << logger, ht >>
  ELSE /\ logger' = [logger EXCEPT !.resp_size = @ + g.resp_size]
       /\ ht' = process_log(ht, g)
       /\ parsed' = parsed + 1

\* the rest of pre_process_log once parse_format returned, free_logger
\* included
FinishLine ==
  /\ pc = "post"
  /\ Classify(complete_item(glog), n # -1)
  /\ pc' = "read"
  /\ glog' = init_log_item
  /\ p' = 1
  /\ str' = 1
  /\ special' = 0
  /\ rc' = 0
  /\ seen' = {}
  /\ UNCHANGED << conf, TCB_BTREE, input, n, i, nread, line, ret >>
  /\ UNCHANGED spin_vars

\* fgets returns NULL or the test limit is reached: read_log returns, and
\* in test mode test_format reports 1 for "no valid hits", 0 otherwise
EndOfInput ==
  /\ pc = "read"
  /\ pc' = "done"
  /\ ret' = IF n >= 0
              THEN IF logger.process = 0 \/ logger.process = logger.invalid
                     THEN 1 ELSE 0
              ELSE ret
  /\ UNCHANGED << conf, TCB_BTREE, input, n, i, nread, line, logger, glog, p,
                  str, special, rc, ht, parsed, seen >>
  /\ UNCHANGED spin_vars

Next ==
  \/ ReadLogLine
  \/ LockSpinner
  \/ CountProcess
  \/ UnlockSpinner
  \/ ParseFormatStep
  \/ FinishLine
  \/ EndOfInput

(***************************************************************************)
(* Configurations and inputs of the runs                                   *)
(***************************************************************************)

\* log formats and the date format of the runs
FMT_COMBINED ==
  << "%", "h", " ", "%", "d", " ", "\"", "%", "r", "\"", " ", "%", "s",
     " ", "%", "b", " ", "\"", "%", "R", "\"", " ", "\"", "%", "u", "\"" >>

FMT_HOST_TWICE ==
  << "%", "h", " ", "%", "h", " ", "%", "d", " ", "%", "r" >>

FMT_SIZE_TWICE ==
  << "%", "h", " ", "%", "d", " ", "%", "r", " ", "%", "b", " ", "%", "b" >>

FMT_STATUS_TWICE ==
  << "%", "h", " ", "%", "d", " ", "%", "r", " ", "%", "s", " ", "%", "s" >>

FMT_USECS_SECS ==
  << "%", "h", " ", "%", "d", " ", "%", "r", " ", "%", "D", " ", "%", "T" >>

FMT_SECS_USECS ==
  << "%", "h", " ", "%", "d", " ", "%", "r", " ", "%", "T", " ", "%", "D" >>

FMT_REQUEST ==
  << "%", "h", " ", "%", "d", " ", "\"", "%", "r", "\"" >>

DATE_FMT ==
  << "%", "d", "/", "%", "m", "/", "%", "Y" >>

\* tokens of the input lines
HOST_A ==
  << ":", ":", "1" >>

HOST_B ==
  << ":", ":", "2" >>

HOST_BAD ==
  << "z", "z" >>

DATE_A ==
  << "1", "0", "/", "0", "4", "/", "2", "0", "1", "4" >>

DATE_B ==
  << "1", "1", "/", "0", "4", "/", "2", "0", "1", "4" >>

REQ_A ==
  << "G", "E", "T", " ", "/", "a", " ", "H", "T", "T", "P", "/", "1", ".",
     "1" >>

REQ_A_QUERY ==
  << "G", "E", "T", " ", "/", "a", "?", "b", " ", "H", "T", "T", "P", "/",
     "1", ".", "1" >>

REQ_PNG ==
  << "G", "E", "T", " ", "/", "i", ".", "p", "n", "g", " ", "H", "T", "T",
     "P", "/", "1", ".", "1" >>

REQ_PNG_QUERY ==
  << "G", "E", "T", " ", "/", "i", ".", "p", "n", "g", "?", "v", " ", "H",
     "T", "T", "P", "/", "1", ".", "1" >>

REQ_NO_URI ==
  << "G", "E", "T", " ", "H", "T", "T", "P", "/", "1", ".", "1" >>

REQ_NO_PROTOCOL ==
  << "G", "E", "T", " ", "/", "a" >>

REQ_BARE ==
  << "/", "a" >>

REF_SITE_X ==
  << "h", "t", "t", "p", ":", "/", "/", "x", "/", "p" >>

REF_GOOGLE ==
  << "h", "t", "t", "p", ":", "/", "/", "w", "w", "w", ".", "g", "o", "o",
     "g", "l", "e", ".", "c", "o", "m", "/", "s", "?", "q", "=", "a", "+",
     "b", "&", "h", "l", "=", "e", "n" >>

REF_ENCODED ==
  << "h", "t", "t", "p", ":", "/", "/", "y", "/", "%", "3", "F", "z" >>

AGENT_M ==
  << "M", "/", "5", " ", "(", "X", "1", "1", ")" >>

AGENT_BOT ==
  << "b", "o", "t", "/", "1" >>

EXT_PNG ==
  << ".", "p", "n", "g" >>

SITE_X ==
  << "x" >>


\* a line of the combined format, the newline fgets keeps included
CombinedLine(host, date, req, status, size, ref, agent) ==
  host \o << " " >> \o date \o << " ", "\"" >> \o req \o << "\"", " " >>
    \o status \o << " " >> \o size \o << " ", "\"" >> \o ref
    \o << "\"", " ", "\"" >> \o agent \o << "\"", "\n" >>

\* a line of space-separated tokens
RECURSIVE PlainLine(_)
PlainLine(tokens) ==
  IF Len(tokens) = 1 THEN Head(tokens) \o << "\n" >>
  ELSE Head(tokens) \o << " " >> \o PlainLine(Tail(tokens))

\* the configuration every run starts from
BaseConf ==
  [ log_format |-> FMT_COMBINED, date_format |-> DATE_FMT,
    double_decode |-> FALSE, append_method |-> FALSE, append_protocol |-> FALSE,
    ignore_qstr |-> FALSE, code444_as_404 |-> FALSE,
    client_err_to_unique_count |-> FALSE, ignore_crawlers |-> FALSE,
    ignore_ip_idx |-> 0, ignore_ips |-> {}, ignore_referers |-> {},
    list_agents |-> FALSE,
    static_files |-> << EXT_PNG >>, static_file_idx |-> 1, static_file_max_len |-> 4,
    bandwidth |-> FALSE, serve_usecs |-> FALSE ]

EmptyTables ==
  [ unique_visitors |-> EmptyTable, unique_vis |-> EmptyTable,
    browsers |-> EmptyTable, os |-> EmptyTable, hosts |-> EmptyTable,
    status_code |-> EmptyTable, referrers |-> EmptyTable,
    referring_sites |-> EmptyTable, keyphrases |-> EmptyTable,
    requests |-> EmptyTable, requests_static |-> EmptyTable,
    not_found_requests |-> EmptyTable, host_agents |-> EmptyTable,
    date_bw |-> EmptyTable, file_bw |-> EmptyTable, host_bw |-> EmptyTable,
    file_serve_usecs |-> EmptyTable, host_serve_usecs |-> EmptyTable,
    general_stats |-> EmptyTable ]

\* the state after init_log and before parse_log, for a configuration of
\* confs, a log source delivering lines, a mode of modes and a line buffer
\* holding one of stale (read_log does not initialise it)
InitDriver(confs, lines, modes, builds, stale) ==
  /\ conf \in confs
  /\ TCB_BTREE \in builds
  /\ input = lines
  /\ n \in modes
  /\ line \in stale
  /\ i = 0
  /\ nread = 0
  /\ pc = "read"
  /\ logger = [process |-> 0, invalid |-> 0, exclude_ip |-> 0, resp_size |-> 0]
  /\ glog = init_log_item
  /\ p = 1
  /\ str = 1
  /\ special = 0
  /\ rc = 0
  /\ ht = EmptyTables
  /\ ret = -1
  /\ parsed = 0
  /\ seen = {}

\* a run without a progress spinner: parsing_spinner is NULL
NoSpinner ==
  /\ parsing_spinner = "NULL"
  /\ mutex = "free"
  /\ spc = "idle"
  /\ changes = 0
  /\ unowned = FALSE

InitFrom(confs, lines, modes, builds, stale) ==
  InitDriver(confs, lines, modes, builds, stale) /\ NoSpinner

\* the driver's inputs: comments, blank and malformed lines, excluded and
\* retained records, in full mode and in test mode
DriverLines ==
  { << "#", "c", "\n" >>,
    << "\n" >>,
    PlainLine(<< HOST_BAD, DATE_A >>),
    PlainLine(<< HOST_A >>),
    CombinedLine(HOST_A, DATE_A, REQ_A, << "2", "0", "0" >>, << "5" >>, Dash, AGENT_M),
    CombinedLine(HOST_B, DATE_A, REQ_A, << "2", "0", "0" >>, << "7" >>, Dash, AGENT_M),
    CombinedLine(HOST_A, DATE_A, REQ_A, << "2", "0", "0" >>, << "5" >>, Dash, AGENT_BOT),
    CombinedLine(HOST_A, DATE_A, REQ_A, << "2", "0", "0" >>, << "5" >>, REF_SITE_X, AGENT_M) }

DriverConf ==
  [BaseConf EXCEPT !.ignore_ip_idx = 1, !.ignore_ips = {HOST_B},
                   !.ignore_crawlers = TRUE, !.ignore_referers = {SITE_X}]

Init ==
  InitFrom({DriverConf}, DriverLines, {-1, TEST_LINES}, BOOLEAN,
           {<< >>, CombinedLine(HOST_B, DATE_B, REQ_PNG, << "4", "0", "4" >>,
                                << "9" >>, Dash, AGENT_M) \o << NUL >>})

Spec ==
  Init /\ [][Next]_vars

(***************************************************************************)
(* The driver: counters, test mode, and what a line may touch              *)
(***************************************************************************)

\* the number of lines process_log was run on: it counts each under its host
accepted ==
  TableSum(ht.hosts)

\* the aggregate tables, the general-stats table of TCB_BTREE builds aside
AggTables(h) ==
  [h EXCEPT !.general_stats = EmptyTable]

\* the driver is between two lines of a full-mode run
BetweenLines ==
  n = -1 /\ pc \in {"read", "done"}

\* C1: after any sequence of lines in full mode, invalid + accepted +
\* excluded = process, and invalid never exceeds process
C1_CountersBalance ==
  BetweenLines =>
    /\ logger.invalid + accepted + logger.exclude_ip = logger.process
    /\ logger.invalid <= logger.process

\* C2: test_format reports success iff one of the lines it processed was
\* fully parsed, i.e. iff process > 0 and process # invalid
C2_TestFormatSuccess ==
  (pc = "done" /\ n >= 0) =>
    /\ (ret = 0) <=> (parsed > 0)
    /\ (ret = 0) <=> (logger.process > 0 /\ logger.process # logger.invalid)

\* the line pre_process_log is finishing is in full mode, accepted, and
\* excluded by no IP range, crawler test or ignored referer
Dispatched ==
  /\ pc = "post" /\ n = -1 /\ rc = 0
  /\ glog.host # NULL /\ glog.date # NULL /\ glog.req # NULL
  /\ ~(conf.ignore_ip_idx # 0 /\ glog.host \in conf.ignore_ips)
  /\ ~(conf.ignore_crawlers /\ glog.agent # NULL
       /\ StrStr(glog.agent, << "b", "o", "t" >>) # 0)
  /\ glog.site \notin conf.ignore_referers

RequestLine(req) ==
  HOST_A \o << " " >> \o DATE_A \o << " ", "\"" >> \o req \o << "\"", "\n" >>

REQ_BLANK_URI ==
  << "G", "E", "T", " ", " ", "H", "T", "T", "P", "/", "1", ".", "1" >>

\* lines for the formats that repeat a specifier or hold both %T and %D,
\* and request lines with and without URI and protocol
FormatLines ==
  { PlainLine(<< HOST_A, HOST_B, DATE_A, REQ_BARE >>),
    PlainLine(<< HOST_A, DATE_A, REQ_BARE, << "0" >>, << "5" >> >>),
    PlainLine(<< HOST_A, DATE_A, REQ_BARE, << "3" >>, << "5" >> >>),
    PlainLine(<< HOST_A, DATE_A, REQ_BARE, << "-" >>, << "5" >> >>),
    RequestLine(REQ_A),
    RequestLine(REQ_NO_URI),
    RequestLine(REQ_NO_PROTOCOL),
    RequestLine(REQ_BLANK_URI),
    RequestLine(REQ_BARE) }

\* a format in which a '%' is followed by a blank
FMT_PERCENT_BLANK ==
  << "%", "h", " ", "%", "d", " ", "%", " ", "%", "r" >>

FormatConfs ==
  { [BaseConf EXCEPT !.log_format = f] :
      f \in { FMT_HOST_TWICE, FMT_SIZE_TWICE, FMT_STATUS_TWICE, FMT_USECS_SECS,
              FMT_SECS_USECS, FMT_REQUEST, FMT_PERCENT_BLANK } }

InitFmt ==
  InitFrom(FormatConfs, FormatLines, {-1}, {FALSE}, {<< >>})

SpecFmt ==
  InitFmt /\ [][Next]_vars

\* the field a specifier stores into
Target(c) ==
  CASE c = "d" -> "date" [] c = "h" -> "host" [] c = "m" -> "method"
    [] c = "U" -> "req" [] c = "r" -> "req" [] c = "H" -> "protocol"
    [] c = "s" -> "status" [] c = "b" -> "resp_size" [] c = "R" -> "ref"
    [] c = "u" -> "agent" [] c = "T" -> "serve_time" [] c = "D" -> "serve_time"
    [] OTHER -> "none"

\* parse_format is about to call parse_specifier for specifier c
Reached(c) ==
  /\ pc = "fmt" /\ special # 0
  /\ CharAt(conf.log_format, p) = c
  /\ CharAt(line, str) # NUL

\* the step parse_format takes rejects the line
Rejects ==
  pc' = "post" /\ rc' = 1

\* C4: a specifier reached after a specifier of the same target field
\* parsed a token of the line rejects the line, whatever was stored
C4_RepeatRejects ==
  [][\A c \in FieldSpecifiers :
       (Reached(c) /\ \E x \in seen : Target(x) = Target(c)) => Rejects]_vars

\* C5: when the format contains %D, a %T that is reached neither sets
\* serve_time, nor consumes input, nor rejects the line
C5_SecondsSkipped ==
  [][(Reached("T") /\ StrStr(conf.log_format, << "%", "D" >>) # 0)
       => (pc' = "fmt" /\ glog' = glog /\ str' = str)]_vars

\* the token %r is about to read has a method but no protocol suffix, or
\* a protocol suffix that begins at most one byte after the method
NoUriToken(tkn) ==
  /\ tkn # NULL
  /\ \E k \in 1..Len(Methods) :
       /\ HasPrefixAt(tkn, 1, Methods[k])
       /\ \A j \in 1..(k - 1) : ~HasPrefixAt(tkn, 1, Methods[j])
       /\ LET proto == IF StrStr(tkn, << " " >> \o HTTP10) # 0
                         THEN StrStr(tkn, << " " >> \o HTTP10)
                         ELSE StrStr(tkn, << " " >> \o HTTP11)
          IN  proto = 0 \/ proto <= Len(Methods[k]) + 2

\* %r is reached on a fresh item with such a token
NoUriRequest ==
  /\ Reached("r") /\ glog.req = NULL
  /\ NoUriToken(parse_string(line, str, CharAt(conf.log_format, p + 1), 1).tkn)

STATUS_200 ==
  << "2", "0", "0" >>

STATUS_4040 ==
  << "4", "0", "4", "0" >>

AGENT_W ==
  << "W", "/", "1" >>

\* records of every class: plain and static requests, with and without a
\* query string, client errors, and referers of each kind
AggregateLines ==
  { CombinedLine(HOST_A, DATE_A, REQ_A, STATUS_200, << "5" >>, Dash, AGENT_M),
    CombinedLine(HOST_A, DATE_A, REQ_A_QUERY, STATUS_200, << "5" >>, REF_GOOGLE, AGENT_M),
    CombinedLine(HOST_A, DATE_A, REQ_A_QUERY, STATUS_404, << "0" >>, REF_SITE_X, AGENT_W),
    CombinedLine(HOST_B, DATE_A, REQ_PNG, STATUS_4040, << "7" >>, REF_ENCODED, AGENT_M),
    CombinedLine(HOST_B, DATE_B, REQ_PNG_QUERY, STATUS_444, << "7" >>, << >>, AGENT_M),
    CombinedLine(HOST_B, DATE_A, REQ_PNG, STATUS_200, << "9" >>, REF_SITE_X, AGENT_M) }

AggregateConfs ==
  { [BaseConf EXCEPT !.ignore_qstr = q, !.code444_as_404 = c,
                     !.client_err_to_unique_count = u] :
      q \in BOOLEAN, c \in BOOLEAN, u \in BOOLEAN }

InitAgg ==
  InitFrom(AggregateConfs, AggregateLines, {-1}, {FALSE}, {<< >>})

SpecAgg ==
  InitAgg /\ [][Next]_vars

\* table t2 is table t with one more hit under key k
Bumped(t, t2, k) ==
  t2 = TableAdd(t, k, 1)

RequestTables ==
  {"requests", "requests_static", "not_found_requests"}

\* the request up to and excluding its first '?', when ignore_qstr is set
\* and the '?' is at offset > 0; the request otherwise
QueryCut(req) ==
  IF conf.ignore_qstr /\ StrChrFrom(req, 1, "?") > 1
    THEN SubSeq(req, 1, StrChrFrom(req, 1, "?") - 1)
    ELSE req

\* C6: for every retained record, of any status code, with no method or
\* protocol prefix configured, req_key (the key counted in the record's
\* request table) is the request cut before its first '?' when ignore_qstr
\* is set and the '?' is at offset > 0, and the request itself otherwise
C6_RequestKey ==
  [][(Dispatched /\ ~conf.append_method /\ ~conf.append_protocol) =>
       \E tbl \in RequestTables : Bumped(ht[tbl], ht'[tbl], QueryCut(glog.req))]_vars

\* the table the claim names for a record of this status and request key
ClaimedTable(status, key) ==
  IF status = STATUS_404 \/ (status = STATUS_444 /\ conf.code444_as_404)
    THEN "not_found_requests"
  ELSE IF /\ Len(key) >= conf.static_file_max_len
          /\ \E k \in 1..conf.static_file_idx :
               /\ Len(conf.static_files[k]) <= Len(key)
               /\ SubSeq(key, Len(key) - Len(conf.static_files[k]) + 1, Len(key))
                    = conf.static_files[k]
    THEN "requests_static"
  ELSE "requests"

RequestHits ==
  TableSum(ht.requests) + TableSum(ht.requests_static)
    + TableSum(ht.not_found_requests)

\* C7: every retained record increments exactly one of not_found_requests,
\* requests_static and requests, under its request key: not_found_requests
\* iff its status equals "404", or "444" with code444_as_404; otherwise
\* requests_static iff the request is long enough and ends in a configured
\* extension; otherwise requests; so the three tables' hits add up to the
\* number of retained records
C7_OneRequestTable ==
  /\ [](BetweenLines => RequestHits = accepted)
  /\ [][Dispatched =>
          \E key \in UNION {DOMAIN ht'[tbl] : tbl \in RequestTables} :
            /\ Bumped(ht[ClaimedTable(glog.status, key)],
                      ht'[ClaimedTable(glog.status, key)], key)
            /\ \A tbl \in RequestTables \ {ClaimedTable(glog.status, key)} :
                 ht'[tbl] = ht[tbl]]_vars

\* the record's key host|date_key|deblank(agent)
UniqueKey ==
  glog.host \o << "|" >> \o convert_date(glog.date, conf.date_format) \o << "|" >>
    \o deblank(IF glog.agent = NULL THEN Dash ELSE glog.agent)

\* the tables of the unique-visitor dispatch
UniqueDispatch(h) ==
  << h.unique_vis, h.browsers, h.os >>

\* the record is a client error that the configuration keeps out of the
\* unique counts
GatedOut ==
  /\ glog.status # NULL /\ glog.status # << >> /\ Head(glog.status) = "4"
  /\ ~conf.client_err_to_unique_count

\* what C8 asks of the step that dispatches a retained record
UniqueStep ==
  IF GatedOut
    THEN /\ ht'.unique_visitors = ht.unique_visitors
         /\ UniqueDispatch(ht') = UniqueDispatch(ht)
  ELSE IF UniqueKey \in DOMAIN ht.unique_visitors
    THEN /\ DOMAIN ht'.unique_visitors = DOMAIN ht.unique_visitors
         /\ UniqueDispatch(ht') = UniqueDispatch(ht)
  ELSE /\ DOMAIN ht'.unique_visitors = DOMAIN ht.unique_visitors \cup {UniqueKey}
       /\ Bumped(ht.unique_vis, ht'.unique_vis,
                 convert_date(glog.date, conf.date_format))
       /\ TableSum(ht'.browsers) = TableSum(ht.browsers) + 1
       /\ TableSum(ht'.os) = TableSum(ht.os) + 1

\* C8: the unique-visitor dispatch (unique_vis[date_key]++, browser and OS
\* recording) happens exactly once per distinct key of unique_visitors, on
\* the record that first inserts the key; a record whose status starts
\* with '4' neither inserts nor dispatches when client_err_to_unique_count
\* is false, and is treated like any other record when it is true
C8_UniqueOncePerKey ==
  /\ [](/\ TableSum(ht.unique_vis) = Cardinality(DOMAIN ht.unique_visitors)
        /\ TableSum(ht.browsers) = Cardinality(DOMAIN ht.unique_visitors)
        /\ TableSum(ht.os) = Cardinality(DOMAIN ht.unique_visitors))
  /\ [][Dispatched => UniqueStep]_vars

\* two records of one key were dispatched, and a client error was kept out
\* of the unique counts or counted as the configuration says
C8_Witness ==
  /\ BetweenLines /\ accepted = 2
  /\ \/ \E k \in DOMAIN ht.unique_visitors : ht.unique_visitors[k] = 2
     \/ /\ Cardinality(DOMAIN ht.unique_visitors) = 1
        /\ STATUS_404 \in DOMAIN ht.status_code

\* C10: for every retained record the referrers table is incremented iff
\* the record's referer is non-empty and not "-", under the URL-decoded
\* complete referer, Google referers with a keyphrase included
C10_ReferrerKey ==
  [][Dispatched =>
       IF glog.ref # NULL /\ glog.ref # << >> /\ glog.ref # Dash
         THEN Bumped(ht.referrers, ht'.referrers,
                     decode_url(glog.ref, conf.double_decode))
         ELSE ht'.referrers = ht.referrers]_vars

(***************************************************************************)
(* The format walk: '%' before whitespace, and the reach of the cursor     *)
(***************************************************************************)

\* C12: when the format walk reaches a whitespace byte of the format with
\* the special flag set ('%' immediately followed by whitespace), it
\* rejects the line
C12_PercentBlankRejects ==
  [][(pc = "fmt" /\ special # 0 /\ isspace(CharAt(conf.log_format, p)))
       => Rejects]_vars

\* C13: during the format walk of a line the line cursor never moves past
\* the end of the line: its offset is at most the line's length
C13_CursorInLine ==
  pc \in {"fmt", "post"} => str - 1 <= StrLenAt(line, 1)

(***************************************************************************)
(* The progress spinner: another thread that renders the counters under    *)
(* parsing_spinner->mutex while the driver counts lines                    *)
(***************************************************************************)

\* changes of the spinner's state during one run
MaxStateChanges ==
  2

\* what the spinner thread and the state change leave alone
driver_vars ==
  << conf, TCB_BTREE, input, n, i, nread, line, pc, logger, glog, p, str,
     special, rc, ht, ret, parsed, seen >>

\* the spinner thread takes the mutex to render a snapshot of the counters
SpinnerLock ==
  /\ parsing_spinner = "SPN_RUN"
  /\ spc = "idle"
  /\ mutex = "free"
  /\ mutex' = "spinner"
  /\ spc' = "render"
  /\ UNCHANGED << parsing_spinner, changes, unowned >>
  /\ UNCHANGED driver_vars

\* the spinner thread has rendered and releases the mutex; if the mutex
\* was taken from it meanwhile, the unlock leaves it as it is or releases it
SpinnerUnlock ==
  /\ spc = "render"
  /\ spc' = "idle"
  /\ mutex' \in (IF mutex = "spinner" THEN {"free"} ELSE {mutex, "free"})
  /\ UNCHANGED << parsing_spinner, changes, unowned >>
  /\ UNCHANGED driver_vars

\* the spinner is stopped or started while the driver runs
SetSpinnerState ==
  /\ parsing_spinner # "NULL"
  /\ changes < MaxStateChanges
  /\ parsing_spinner' = IF parsing_spinner = "SPN_RUN" THEN "SPN_END" ELSE "SPN_RUN"
  /\ changes' = changes + 1
  /\ UNCHANGED << mutex, spc, unowned >>
  /\ UNCHANGED driver_vars

NextSpin ==
  \/ Next
  \/ SpinnerLock
  \/ SpinnerUnlock
  \/ SetSpinnerState

\* a comment, a line the host parser rejects and a well-formed line
SpinnerLines ==
  { << "#", "c", "\n" >>,
    PlainLine(<< HOST_BAD, DATE_A >>),
    CombinedLine(HOST_A, DATE_A, REQ_A, << "2", "0", "0" >>, << "5" >>, Dash, AGENT_M) }

\* a full-mode run with a spinner, running or ended
InitSpin ==
  /\ InitDriver({BaseConf}, SpinnerLines, {-1}, {FALSE}, {<< >>})
  /\ parsing_spinner \in {"SPN_RUN", "SPN_END"}
  /\ mutex = "free"
  /\ spc = "idle"
  /\ changes = 0
  /\ unowned = FALSE

SpecSpin ==
  InitSpin /\ [][NextSpin]_vars

\* the step increments logger.process or logger.invalid
CounterWrite ==
  logger'.process # logger.process \/ logger'.invalid # logger.invalid

\* C11: while the spinner is in SPN_RUN, every increment of logger.process
\* and of logger.invalid is made with the driver holding the mutex and the
\* spinner thread not rendering; when the spinner is not in SPN_RUN,
\* lock_spinner does not take the mutex
C11_CountersUnderMutex ==
  [][/\ (parsing_spinner = "SPN_RUN" /\ CounterWrite)
          => (mutex = "driver" /\ spc # "render")
     /\ (parsing_spinner # "SPN_RUN" /\ pc = "lock" /\ pc' = "count")
          => mutex' = mutex]_vars

\* C14: the driver's lock and unlock are balanced whatever the spinner's
\* state does meanwhile: outside count_process the driver holds no mutex,
\* and it never unlocks a mutex it did not lock
C14_LockBalanced ==
  /\ pc \notin {"count", "unlock"} => mutex # "driver"
  /\ ~unowned

====
